---- MODULE Spec2Model ----
(***************************************************************************)
(* Exercise-guide list application (src/vite.config.js): the item list,    *)
(* its persistence in localStorage, the share-link codec, file import and  *)
(* the add/edit/delete form handlers.                                      *)
(*                                                                         *)
(* Text is modelled as a sequence of Unicode code points, bytes as a       *)
(* sequence of 0..255, so that trim, split, UTF-8, base64 and the URL      *)
(* query parsing are computed as the code computes them.                   *)
(***************************************************************************)
EXTENDS Integers, Sequences, FiniteSets, TLC

\* ------------------------------------------------------------------ bounds
MaxItems == 2     \* create is offered while the list has fewer items
MaxTime == 2      \* the clock runs 1..MaxTime
MaxReads == 2     \* file reads in flight at once

\* ------------------------------------------------------- character codes
\* 32 space, 34 quote, 43 plus, 44 comma, 47 slash, 61 equals, 92 backslash
\* ASCII text of the JSON punctuation and of the item keys
\* (bodies are tuples of character codes)
TxtNull == <<110, 117, 108, 108>>                          \* null
KeyId == <<105, 100>>                                      \* id
KeyTitle == <<116, 105, 116, 108, 101>>                    \* title
KeyContent == <<99, 111, 110, 116, 101, 110, 116>>         \* content
KeyCaution == <<99, 97, 117, 116, 105, 111, 110>>          \* caution
KeyLink == <<108, 105, 110, 107>>                          \* link
KeyTags == <<116, 97, 103, 115>>                           \* tags
KeyCreatedAt == <<99, 114, 101, 97, 116, 101, 100, 65, 116>>   \* createdAt
KeyUpdatedAt == <<117, 112, 100, 97, 116, 101, 100, 65, 116>>  \* updatedAt

\* --------------------------------------------------------- text helpers
\* A sequence given element by element, as a tuple
Tup(f) == f \o <<>>

RECURSIVE Join(_, _)
Join(ss, sep) ==
  IF ss = <<>> THEN <<>>
  ELSE IF Len(ss) = 1 THEN Head(ss)
  ELSE Head(ss) \o sep \o Join(Tail(ss), sep)

\* String.prototype.trim: the white space of the model's alphabet
IsSpace(c) == c \in {9, 10, 11, 12, 13, 32}

RECURSIVE TrimLeft(_)
TrimLeft(s) ==
  IF s # <<>> /\ IsSpace(Head(s)) THEN TrimLeft(Tail(s)) ELSE s

RECURSIVE TrimRight(_)
TrimRight(s) ==
  IF s # <<>> /\ IsSpace(s[Len(s)]) THEN TrimRight(SubSeq(s, 1, Len(s) - 1)) ELSE s

Trim(s) == TrimRight(TrimLeft(s))

\* String.prototype.split(","): always at least one segment
RECURSIVE SplitAcc(_, _, _)
SplitAcc(s, cur, sep) ==
  IF s = <<>> THEN <<cur>>
  ELSE IF Head(s) = sep THEN <<cur>> \o SplitAcc(Tail(s), <<>>, sep)
  ELSE SplitAcc(Tail(s), Append(cur, Head(s)), sep)

Split(s, sep) == SplitAcc(s, <<>>, sep)

RECURSIVE MapTrim(_)
MapTrim(ss) == IF ss = <<>> THEN <<>> ELSE <<Trim(Head(ss))>> \o MapTrim(Tail(ss))

RECURSIVE FilterNonEmpty(_)
FilterNonEmpty(ss) ==
  IF ss = <<>> THEN <<>>
  ELSE IF Head(ss) = <<>> THEN FilterNonEmpty(Tail(ss))
  ELSE <<Head(ss)>> \o FilterNonEmpty(Tail(ss))

\* tagsText.split(",").map((s) => s.trim()).filter(Boolean)
ParseTags(txt) == FilterNonEmpty(MapTrim(Split(txt, 44)))

\* Number.prototype.toString(radix), upper-cased for radix 36 by uid
DigitChar(d) == IF d < 10 THEN 48 + d ELSE 65 + (d - 10)

RECURSIVE ToRadix(_, _)
ToRadix(n, r) ==
  IF n < r THEN <<DigitChar(n)>> ELSE Append(ToRadix(n \div r, r), DigitChar(n % r))

\* ------------------------------------------------------------- UTF-8
\* Concatenation of a sequence of sequences, by halves
RECURSIVE Flatten(_)
Flatten(ss) ==
  IF ss = <<>> THEN <<>>
  ELSE IF Len(ss) = 1 THEN ss[1]
  ELSE LET h == Len(ss) \div 2
       IN Flatten(SubSeq(ss, 1, h)) \o Flatten(SubSeq(ss, h + 1, Len(ss)))

Utf8Char(c) ==
  IF c < 128 THEN <<c>>
  ELSE IF c < 2048 THEN <<192 + (c \div 64), 128 + (c % 64)>>
  ELSE <<224 + (c \div 4096), 128 + ((c \div 64) % 64), 128 + (c % 64)>>

\* unescape(encodeURIComponent(text)): the UTF-8 bytes of the text
Utf8Encode(s) == Flatten(Tup([i \in 1..Len(s) |-> Utf8Char(s[i])]))

IsCont(b) == b >= 128 /\ b < 192

\* Length of the UTF-8 sequence a byte leads, 0 for a byte that leads none
Utf8Width(h) ==
  IF h < 128 THEN 1
  ELSE IF h >= 194 /\ h < 224 THEN 2
  ELSE IF h >= 224 /\ h < 240 THEN 3
  ELSE 0

\* The sequence led by b[i] is complete and well formed
Utf8LeadOk(b, i) ==
  LET n == Utf8Width(b[i])
  IN /\ n > 0
     /\ i + n - 1 <= Len(b)
     /\ \A j \in (i + 1)..(i + n - 1) : IsCont(b[j])
     /\ (n = 3) =>
          LET cp == (b[i] - 224) * 4096 + (b[i + 1] - 128) * 64 + (b[i + 2] - 128)
          IN cp >= 2048 /\ ~(cp >= 55296 /\ cp < 57344)

\* b[i] is a continuation byte of the sequence led one or two bytes before
Utf8ContOk(b, i) ==
  \/ i > 1 /\ Utf8Width(b[i - 1]) >= 2
  \/ i > 2 /\ Utf8Width(b[i - 2]) = 3 /\ IsCont(b[i - 1])

Utf8CodePoint(b, i) ==
  LET n == Utf8Width(b[i])
  IN IF n = 1 THEN b[i]
     ELSE IF n = 2 THEN (b[i] - 192) * 64 + (b[i + 1] - 128)
     ELSE (b[i] - 224) * 4096 + (b[i + 1] - 128) * 64 + (b[i + 2] - 128)

\* decodeURIComponent(escape(bytes)): ok = FALSE is the URIError it throws
Utf8Decode(b) ==
  IF \A i \in 1..Len(b) : IF IsCont(b[i]) THEN Utf8ContOk(b, i) ELSE Utf8LeadOk(b, i)
  THEN [ok |-> TRUE,
        text |-> Flatten(Tup([i \in 1..Len(b) |->
                                IF IsCont(b[i]) THEN <<>> ELSE <<Utf8CodePoint(b, i)>>]))]
  ELSE [ok |-> FALSE, text |-> <<>>]

\* ------------------------------------------------------------- base64
B64Char(i) ==
  IF i < 26 THEN 65 + i
  ELSE IF i < 52 THEN 97 + (i - 26)
  ELSE IF i < 62 THEN 48 + (i - 52)
  ELSE IF i = 62 THEN 43 ELSE 47

\* -1 for a character outside the alphabet
B64Index(c) ==
  IF c >= 65 /\ c <= 90 THEN c - 65
  ELSE IF c >= 97 /\ c <= 122 THEN c - 97 + 26
  ELSE IF c >= 48 /\ c <= 57 THEN c - 48 + 52
  ELSE IF c = 43 THEN 62
  ELSE IF c = 47 THEN 63
  ELSE -1

\* window.btoa on a byte string: character j of the output, from the
\* three-byte group it belongs to ("=" pads the last group)
btoa(b) ==
  LET n == Len(b)
      at(i) == IF i <= n THEN b[i] ELSE 0
  IN Tup([j \in 1..(4 * ((n + 2) \div 3)) |->
            LET g == 3 * ((j - 1) \div 4)
                k == (j - 1) % 4
            IN IF k = 0 THEN B64Char(at(g + 1) \div 4)
               ELSE IF k = 1 THEN B64Char((at(g + 1) % 4) * 16 + (at(g + 2) \div 16))
               ELSE IF k = 2 THEN
                 IF g + 2 > n THEN 61
                 ELSE B64Char((at(g + 2) % 16) * 4 + (at(g + 3) \div 64))
               ELSE IF g + 3 > n THEN 61 ELSE B64Char(at(g + 3) % 64)])

IsB64Space(c) == c \in {9, 10, 12, 13, 32}

StripSpace(s) == SelectSeq(s, LAMBDA c : ~IsB64Space(c))

StripPadding(s) ==
  IF Len(s) % 4 # 0 \/ s = <<>> THEN s
  ELSE IF s[Len(s)] # 61 THEN s
  ELSE IF s[Len(s) - 1] = 61 THEN SubSeq(s, 1, Len(s) - 2)
  ELSE SubSeq(s, 1, Len(s) - 1)

\* Byte j of the decoded output, from the four-character group it
\* belongs to (the bits left over in a last short group are dropped)
B64Bytes(s) ==
  LET n == Len(s)
      outLen == 3 * (n \div 4) + (IF n % 4 = 0 THEN 0 ELSE (n % 4) - 1)
  IN Tup([j \in 1..outLen |->
            LET g == 4 * ((j - 1) \div 3)
                k == (j - 1) % 3
            IN IF k = 0 THEN B64Index(s[g + 1]) * 4 + (B64Index(s[g + 2]) \div 16)
               ELSE IF k = 1 THEN
                 (B64Index(s[g + 2]) % 16) * 16 + (B64Index(s[g + 3]) \div 4)
               ELSE (B64Index(s[g + 3]) % 4) * 64 + B64Index(s[g + 4])])

\* window.atob (forgiving-base64 decode): ok = FALSE is the
\* InvalidCharacterError it throws
atob(data) ==
  LET s == StripPadding(StripSpace(data))
  IN IF Len(s) % 4 = 1 \/ (\E i \in 1..Len(s) : B64Index(s[i]) < 0)
     THEN [ok |-> FALSE, bytes |-> <<>>]
     ELSE [ok |-> TRUE, bytes |-> B64Bytes(s)]

\* ------------------------------------------------------- JSON values
\* A value of an item field as JavaScript holds it: t names its type
\* ("absent" is undefined / a missing key); s, n, a hold a string, a
\* non-negative integer, an array of scalar values.
Absent == [t |-> "absent", s |-> <<>>, n |-> 0, a |-> <<>>]
Null == [t |-> "null", s |-> <<>>, n |-> 0, a |-> <<>>]
Str(s) == [t |-> "str", s |-> s, n |-> 0, a |-> <<>>]
Num(n) == [t |-> "num", s |-> <<>>, n |-> n, a |-> <<>>]
Arr(a) == [t |-> "arr", s |-> <<>>, n |-> 0, a |-> a]

RECURSIVE MapStr(_)
MapStr(ss) == IF ss = <<>> THEN <<>> ELSE <<Str(Head(ss))>> \o MapStr(Tail(ss))

\* An element of a list: k = "obj" is an object with the item keys,
\* k = "null" is the JSON null.
Obj(vId, vTitle, vContent, vCaution, vLink, vTags, vCreatedAt, vUpdatedAt) ==
  [k |-> "obj", id |-> vId, title |-> vTitle, content |-> vContent,
   caution |-> vCaution, link |-> vLink, tags |-> vTags,
   createdAt |-> vCreatedAt, updatedAt |-> vUpdatedAt]

NullElem ==
  [k |-> "null", id |-> Absent, title |-> Absent, content |-> Absent,
   caution |-> Absent, link |-> Absent, tags |-> Absent,
   createdAt |-> Absent, updatedAt |-> Absent]

\* A parsed JSON document: an array of elements, or some other value
\* (modelled by the empty object).
ArrDoc(list) == [isArr |-> TRUE, list |-> list]
NonArrDoc == [isArr |-> FALSE, list |-> <<>>]

\* JavaScript truthiness (!!v)
Truthy(v) ==
  CASE v.t = "str" -> v.s # <<>>
    [] v.t = "num" -> v.n # 0
    [] v.t = "arr" -> TRUE
    [] OTHER -> FALSE

\* String(v)
RECURSIVE ToStr(_)
ToStr(v) ==
  CASE v.t = "str" -> v.s
    [] v.t = "num" -> ToRadix(v.n, 10)
    [] v.t = "null" -> TxtNull
    [] v.t = "absent" -> <<117, 110, 100, 101, 102, 105, 110, 101, 100>>
    [] OTHER ->
         Join(Tup([i \in 1..Len(v.a) |->
                     IF v.a[i].t \in {"null", "absent"} THEN <<>> ELSE ToStr(v.a[i])]),
              <<44>>)

IsDigits(s) == s # <<>> /\ \A i \in 1..Len(s) : s[i] >= 48 /\ s[i] <= 57

RECURSIVE DigitsValue(_)
DigitsValue(s) ==
  IF s = <<>> THEN 0 ELSE DigitsValue(SubSeq(s, 1, Len(s) - 1)) * 10 + (s[Len(s)] - 48)

\* Number(v): nan = TRUE is NaN
RECURSIVE ToNum(_)
ToNum(v) ==
  CASE v.t = "num" -> [nan |-> FALSE, n |-> v.n]
    [] v.t = "null" -> [nan |-> FALSE, n |-> 0]
    [] v.t = "absent" -> [nan |-> TRUE, n |-> 0]
    [] v.t = "str" ->
         LET s == Trim(v.s)
         IN IF s = <<>> THEN [nan |-> FALSE, n |-> 0]
            ELSE IF IsDigits(s) THEN [nan |-> FALSE, n |-> DigitsValue(s)]
            ELSE [nan |-> TRUE, n |-> 0]
    [] OTHER -> ToNum(Str(ToStr(v)))

\* ---------------------------------------------------- JSON.stringify
RECURSIVE EscapeJson(_)
EscapeJson(s) ==
  IF s = <<>> THEN <<>>
  ELSE IF Head(s) \in {34, 92} THEN <<92, Head(s)>> \o EscapeJson(Tail(s))
  ELSE <<Head(s)>> \o EscapeJson(Tail(s))

JsonString(s) == <<34>> \o EscapeJson(s) \o <<34>>

RECURSIVE JsonValue(_)
JsonValue(v) ==
  CASE v.t = "str" -> JsonString(v.s)
    [] v.t = "num" -> ToRadix(v.n, 10)
    [] v.t = "arr" ->
         <<91>> \o Join(Tup([i \in 1..Len(v.a) |-> JsonValue(v.a[i])]), <<44>>) \o <<93>>
    [] OTHER -> TxtNull

JsonMember(key, v) ==
  IF v.t = "absent" THEN <<>> ELSE <<JsonString(key) \o <<58>> \o JsonValue(v)>>

JsonElem(e) ==
  IF e.k = "null" THEN TxtNull
  ELSE <<123>>
       \o Join(JsonMember(KeyId, e.id) \o JsonMember(KeyTitle, e.title)
               \o JsonMember(KeyContent, e.content) \o JsonMember(KeyCaution, e.caution)
               \o JsonMember(KeyLink, e.link) \o JsonMember(KeyTags, e.tags)
               \o JsonMember(KeyCreatedAt, e.createdAt)
               \o JsonMember(KeyUpdatedAt, e.updatedAt), <<44>>)
       \o <<125>>

\* JSON.stringify(doc), without indentation
JSONstringify(doc) ==
  IF doc.isArr
  THEN <<91>> \o Join(Tup([i \in 1..Len(doc.list) |-> JsonElem(doc.list[i])]), <<44>>)
       \o <<93>>
  ELSE <<123, 125>>

\* JSON.stringify(doc, null, 2): members and elements on lines of their
\* own, indented by two spaces a level; an empty array stays "[]"
Indent(depth) == Tup([i \in 1..(2 * depth) |-> 32])

IndentedValue(v, depth) ==
  IF v.t = "arr" /\ v.a # <<>>
  THEN <<91, 10>>
       \o Join(Tup([i \in 1..Len(v.a) |-> Indent(depth + 1) \o JsonValue(v.a[i])]),
               <<44, 10>>)
       \o <<10>> \o Indent(depth) \o <<93>>
  ELSE JsonValue(v)

IndentedMember(key, v) ==
  IF v.t = "absent" THEN <<>>
  ELSE <<Indent(2) \o JsonString(key) \o <<58, 32>> \o IndentedValue(v, 2)>>

IndentedElem(e) ==
  LET members ==
        IndentedMember(KeyId, e.id) \o IndentedMember(KeyTitle, e.title)
        \o IndentedMember(KeyContent, e.content) \o IndentedMember(KeyCaution, e.caution)
        \o IndentedMember(KeyLink, e.link) \o IndentedMember(KeyTags, e.tags)
        \o IndentedMember(KeyCreatedAt, e.createdAt)
        \o IndentedMember(KeyUpdatedAt, e.updatedAt)
  IN IF e.k = "null" THEN TxtNull
     ELSE IF members = <<>> THEN <<123, 125>>
     ELSE <<123, 10>> \o Join(members, <<44, 10>>) \o <<10>> \o Indent(1) \o <<125>>

JSONstringifyIndented(doc) ==
  IF ~doc.isArr THEN <<123, 125>>
  ELSE IF doc.list = <<>> THEN <<91, 93>>
  ELSE <<91, 10>>
       \o Join(Tup([i \in 1..Len(doc.list) |-> Indent(1) \o IndentedElem(doc.list[i])]),
               <<44, 10>>)
       \o <<10, 93>>

\* The JSON reader's pass over one character: st is "out" between tokens,
\* "in" inside a string, "esc" after a backslash inside a string; space,
\* tab, line feed and carriage return between tokens are skipped.
ScanChar(c, st) ==
  CASE st = "esc" -> [out |-> <<c>>, st |-> "in"]
    [] st = "in" ->
         [out |-> <<c>>, st |-> IF c = 92 THEN "esc" ELSE IF c = 34 THEN "out" ELSE "in"]
    [] OTHER ->
         IF c \in {32, 9, 10, 13} THEN [out |-> <<>>, st |-> "out"]
         ELSE [out |-> <<c>>, st |-> IF c = 34 THEN "in" ELSE "out"]

\* the pass over text[lo..hi], by halves
RECURSIVE Scan(_, _, _, _)
Scan(text, lo, hi, st) ==
  IF lo > hi THEN [out |-> <<>>, st |-> st]
  ELSE IF lo = hi THEN ScanChar(text[lo], st)
  ELSE LET mid == (lo + hi) \div 2
           left == Scan(text, lo, mid, st)
           right == Scan(text, mid + 1, hi, left.st)
       IN [out |-> left.out \o right.out, st |-> right.st]

\* the text without the whitespace JSON.parse skips (the texts of the
\* model carry none inside a number or a literal)
SkipWhitespace(text) == Scan(text, 1, Len(text), "out").out

\* JSON.parse(text) on the documents of the universe U: the document whose
\* serialization the text is, whitespace between tokens aside; ok = FALSE
\* is the SyntaxError it throws.
JSONparse(text, U) ==
  LET dense == SkipWhitespace(text)
  IN IF \E d \in U : JSONstringify(d) = dense
     THEN [ok |-> TRUE, doc |-> CHOOSE d \in U : JSONstringify(d) = dense]
     ELSE [ok |-> FALSE, doc |-> NonArrDoc]

\* ------------------------------------------------------ share-link codec
encodeData(doc) == btoa(Utf8Encode(JSONstringify(doc)))

\* ok = FALSE: atob, decodeURIComponent or JSON.parse threw
decodeData(b64, U) ==
  LET bin == atob(b64)
      txt == Utf8Decode(bin.bytes)
  IN IF ~bin.ok \/ ~txt.ok THEN [ok |-> FALSE, doc |-> NonArrDoc]
     ELSE JSONparse(txt.text, U)

\* The address is [has, raw]: whether the query string carries the data
\* parameter and the text after "data=" as written in the address.
NoParam == [has |-> FALSE, raw |-> <<>>]
Param(raw) == [has |-> TRUE, raw |-> raw]

\* URLSearchParams decoding of a query value: "+" reads as a space
\* (the tokens of the model carry no "%" and no "&")
PlusToSpace(s) == Tup([i \in 1..Len(s) |-> IF s[i] = 43 THEN 32 ELSE s[i]])

\* getQueryParam("data"): null when the parameter is missing
getQueryParam(addr) ==
  IF addr.has THEN [null |-> FALSE, val |-> PlusToSpace(addr.raw)]
  ELSE [null |-> TRUE, val |-> <<>>]

\* a setQueryParam that leaves the address as it is (faulty variant)
setQueryParamKept(addr) == addr

\* setQueryParam("data", null)
setQueryParam(addr) == NoParam

\* `${location.origin}${location.pathname}?data=${b64}`
ShareUrl(b64) == Param(b64)

\* ---------------------------------------------------------- uid
ToUpper(s) == Tup([i \in 1..Len(s) |-> IF s[i] >= 97 /\ s[i] <= 122 THEN s[i] - 32 ELSE s[i]])

\* (Date.now().toString(36) + Math.random().toString(36).slice(2, 8)).toUpperCase()
\* rnd is the text Math.random() contributes
uid(time, rnd) == ToUpper(ToRadix(time, 36) \o rnd)

\* ------------------------------------------------------- persistence
\* The store entry is [has, text]: has = FALSE is a missing key.
NoEntry == [has |-> FALSE, text |-> <<>>]
Entry(text) == [has |-> TRUE, text |-> text]

loadData(entry, U) ==
  IF ~entry.has \/ entry.text = <<>> THEN <<>>
  ELSE LET parsed == JSONparse(entry.text, U)
       IN IF parsed.ok /\ parsed.doc.isArr THEN parsed.doc.list ELSE <<>>

\* a saveData that writes only when the key is missing (faulty variant)
saveDataOnce(entry, list, room) ==
  IF entry.has THEN entry ELSE Entry(JSONstringify(ArrDoc(list)))

\* localStorage.setItem(STORAGE_KEY, text) throws when the text exceeds
\* the room the store has left for the key
StoreAccepts(text, room) == Len(text) <= room

\* try { localStorage.setItem(STORAGE_KEY, JSON.stringify(list)) } catch {}
saveData(entry, list, room) ==
  LET text == JSONstringify(ArrDoc(list))
  IN IF StoreAccepts(text, room) THEN Entry(text) ELSE entry

\* ------------------------------------------------------------ import
\* data.filter((d) => d && d.id && d.title)
ImportKeeps(d) == d.k = "obj" /\ Truthy(d.id) /\ Truthy(d.title)

OrElse(v, dflt) == IF Truthy(v) THEN v ELSE dflt

\* Number(v) || Date.now()
NumberOrNow(v, time) ==
  LET x == ToNum(v) IN IF x.nan \/ x.n = 0 THEN Num(time) ELSE Num(x.n)

\* a record stamped with the time of the import (faulty variant)
ImportRecordRestamped(d, time, rnd) ==
  Obj(OrElse(d.id, Str(uid(time, rnd))),
      Str(ToStr(OrElse(d.title, Str(<<47924, 51228>>)))),
      Str(ToStr(OrElse(d.content, Str(<<>>)))),
      Str(ToStr(OrElse(d.caution, Str(<<>>)))),
      Str(ToStr(OrElse(d.link, Str(<<>>)))),
      IF d.tags.t = "arr"
        THEN Arr(Tup([i \in 1..Len(d.tags.a) |-> Str(ToStr(d.tags.a[i]))]))
        ELSE Arr(<<>>),
      NumberOrNow(d.createdAt, time),
      Num(time))

\* the record .map builds from d
ImportRecord(d, time, rnd) ==
  Obj(OrElse(d.id, Str(uid(time, rnd))),
      Str(ToStr(OrElse(d.title, Str(<<47924, 51228>>)))),
      Str(ToStr(OrElse(d.content, Str(<<>>)))),
      Str(ToStr(OrElse(d.caution, Str(<<>>)))),
      Str(ToStr(OrElse(d.link, Str(<<>>)))),
      IF d.tags.t = "arr"
        THEN Arr(Tup([i \in 1..Len(d.tags.a) |-> Str(ToStr(d.tags.a[i]))]))
        ELSE Arr(<<>>),
      NumberOrNow(d.createdAt, time),
      NumberOrNow(d.updatedAt, time))

ImportSafe(data, time, rnd) ==
  LET kept == SelectSeq(data, ImportKeeps)
  IN Tup([i \in 1..Len(kept) |-> ImportRecord(kept[i], time, rnd)])

\* ------------------------------------------------------------ rendering
\* Rendering the list throws (and React unmounts the application) on a
\* null element (it.id, it.title) and on tags that have a length but no
\* map (a non-empty string).
RenderThrows(list) ==
  \E i \in 1..Len(list) :
    \/ list[i].k = "null"
    \/ list[i].tags.t = "str" /\ list[i].tags.s # <<>>

\* items.find((it) => it.id === selectedId) || null, as an index (0: none)
FindIndex(list, id) ==
  IF \E i \in 1..Len(list) : list[i].id = id
  THEN CHOOSE i \in 1..Len(list) :
         list[i].id = id /\ \A j \in 1..(i - 1) : list[j].id # id
  ELSE 0

\* ----------------------------------------------------------------- view
ToLower(s) == Tup([i \in 1..Len(s) |-> IF s[i] >= 65 /\ s[i] <= 90 THEN s[i] + 32 ELSE s[i]])

\* hay.includes(q)
Includes(hay, q) ==
  \E i \in 0..(Len(hay) - Len(q)) : SubSeq(hay, i + 1, i + Len(q)) = q

\* (it.tags || []).join(" ") throws on tags that are truthy and no array
TagsJoinThrows(it) == it.tags.t \in {"str", "num"} /\ Truthy(it.tags)

\* `${it.title}\n${it.content || ""}\n${it.caution || ""}\n${(it.tags || []).join(" ")}`
Hay(it) ==
  ToLower(ToStr(it.title) \o <<10>> \o ToStr(OrElse(it.content, Str(<<>>)))
          \o <<10>> \o ToStr(OrElse(it.caution, Str(<<>>)))
          \o <<10>> \o (IF it.tags.t = "arr"
                          THEN Join(Tup([i \in 1..Len(it.tags.a) |->
                                           IF it.tags.a[i].t \in {"null", "absent"}
                                           THEN <<>> ELSE ToStr(it.tags.a[i])]), <<32>>)
                          ELSE <<>>))

\* query.trim().toLowerCase()
Needle(qtext) == ToLower(Trim(qtext))

\* the filter throws when it runs over an item whose tags cannot be joined
FilterThrows(list, qtext) ==
  Needle(qtext) # <<>> /\ \E i \in 1..Len(list) : TagsJoinThrows(list[i])

\* base: the items whose text includes the query, or all without a query
Filtered(list, qtext) ==
  IF Needle(qtext) = <<>> THEN list
  ELSE SelectSeq(list, LAMBDA it : Includes(Hay(it), Needle(qtext)))

\* a[sortKey] for the keys "createdAt" and "updatedAt"
SortField(it, key) == IF key = "createdAt" THEN it.createdAt ELSE it.updatedAt

\* (b[sortKey] || 0) - (a[sortKey] || 0); sort reads a NaN result as 0
Compare(a, b, key) ==
  LET x == ToNum(OrElse(SortField(b, key), Num(0)))
      y == ToNum(OrElse(SortField(a, key), Num(0)))
  IN IF x.nan \/ y.nan THEN 0 ELSE x.n - y.n

\* The comparator is consistent on the list when "compares as equal",
\* "before" and "after" are transitive; on other lists the order
\* Array.prototype.sort leaves is implementation-defined.
Consistent(list, key) ==
  \A i, j, k \in 1..Len(list) :
    LET ij == Compare(list[i], list[j], key)
        jk == Compare(list[j], list[k], key)
        ik == Compare(list[i], list[k], key)
    IN /\ (ij = 0 /\ jk = 0) => ik = 0
       /\ (ij < 0 /\ jk < 0) => ik < 0
       /\ (ij > 0 /\ jk > 0) => ik > 0

\* x put into a sorted sequence behind the elements that do not sort after it
InsertSorted(sorted, x, key) ==
  SelectSeq(sorted, LAMBDA e : Compare(e, x, key) <= 0) \o <<x>>
  \o SelectSeq(sorted, LAMBDA e : Compare(e, x, key) > 0)

\* [...base].sort(compare) with a consistent comparator: the stable sort
RECURSIVE SortStable(_, _)
SortStable(list, key) ==
  IF list = <<>> THEN <<>>
  ELSE InsertSorted(SortStable(SubSeq(list, 1, Len(list) - 1), key), list[Len(list)], key)

Arrangements(list) ==
  {Tup([i \in 1..Len(list) |-> list[p[i]]]) :
     p \in {f \in [1..Len(list) -> 1..Len(list)] :
              \A i, j \in 1..Len(list) : i # j => f[i] # f[j]}}

\* the orders the copy of the list can be left in
SortOutcomes(list, key) ==
  IF Consistent(list, key) THEN {SortStable(list, key)} ELSE Arrangements(list)

\* --------------------------------------------------------------- inputs
\* Texts the user types into the form
TitleInputs == {<<32>>, <<32, 97>>}                  \* " ", " a"
UnicodeTitleInputs == {<<46041>>}                    \* "동"
TagsInputs == {<<97, 44, 32, 44, 32, 98, 32>>}       \* "a, , b "
ContentInputs == {<<99>>}
CautionInputs == {<<100>>}
LinkInputs == {<<63>>}                               \* "?"

\* What Math.random().toString(36).slice(2, 8) yields
RandomInputs == {<<97>>, <<98>>}

\* Room the store has left for the key, in characters
RoomInputs == {2, 5000}

\* Records of the documents that files, links and the store carry
RecGood ==
  Obj(Str(<<49, 65>>), Str(<<97>>), Str(<<>>), Str(<<>>), Str(<<>>), Arr(<<>>),
      Num(1), Num(1))
RecTwin ==
  Obj(Str(<<49, 65>>), Str(<<98>>), Str(<<>>), Str(<<>>), Str(<<>>), Arr(<<>>),
      Num(2), Num(1))
RecIdOnly ==
  Obj(Str(<<120>>), Absent, Absent, Absent, Absent, Absent, Absent, Absent)
RecTitleOnly ==
  Obj(Absent, Str(<<111, 107>>), Absent, Absent, Absent, Absent, Absent, Absent)
RecLoose ==
  Obj(Num(7), Str(<<116>>), Absent, Null, Absent, Arr(<<Num(5)>>), Str(<<50>>), Absent)

DocGood == ArrDoc(<<RecGood>>)
DocTwins == ArrDoc(<<RecGood, RecTwin>>)
DocRagged == ArrDoc(<<RecIdOnly, RecTitleOnly>>)
DocWithNull == ArrDoc(<<RecIdOnly, NullElem, RecLoose>>)

\* a list whose middle item carries "-" where the times belong
RecDay1 ==
  Obj(Str(<<112>>), Str(<<112>>), Str(<<>>), Str(<<>>), Str(<<>>), Arr(<<>>),
      Num(1), Num(1))
RecUndated ==
  Obj(Str(<<113>>), Str(<<113>>), Str(<<>>), Str(<<>>), Str(<<>>), Arr(<<>>),
      Str(<<45>>), Str(<<45>>))
RecDay2 ==
  Obj(Str(<<114>>), Str(<<114>>), Str(<<>>), Str(<<>>), Str(<<>>), Arr(<<>>),
      Num(2), Num(2))
DocUndated == ArrDoc(<<RecDay1, RecUndated, RecDay2>>)

Docs == {DocGood, DocTwins, DocRagged, DocWithNull, DocUndated, NonArrDoc}

\* text that is no JSON, and a token that is no base64
TxtGarbage == <<120>>
TokGarbage == <<33>>

\* Contents of the files the user picks
FileInputs ==
  {JSONstringify(DocGood), JSONstringify(DocTwins), JSONstringify(DocWithNull),
   JSONstringify(NonArrDoc), TxtGarbage}

\* Store entries the application may find when it starts
EntryInputs == {NoEntry, Entry(TxtGarbage), Entry(JSONstringify(DocGood))}

\* Addresses the application may be opened with
AddressInputs ==
  {NoParam, Param(<<>>), Param(TokGarbage), ShareUrl(encodeData(NonArrDoc)),
   ShareUrl(encodeData(DocGood))}

\* Addresses the user pastes into the "load from link" prompt
PastedAddresses ==
  AddressInputs \cup {ShareUrl(encodeData(DocRagged)), ShareUrl(encodeData(DocWithNull))}

\* What the user gives the "load from link" prompt: nothing (cancel or
\* empty), text that is no URL, or a URL
PromptInputs ==
  {[kind |-> "none", addr |-> NoParam], [kind |-> "text", addr |-> NoParam]}
  \cup {[kind |-> "url", addr |-> a] : a \in PastedAddresses}

\* decodeData(getQueryParam("data")) and JSON.parse(reader.result) on the
\* inputs above, computed once
DecodedLink ==
  [a \in PastedAddresses \cup {ShareUrl(encodeData(DocUndated))} |->
     decodeData(getQueryParam(a).val, Docs)]

\* What the user types into the search box and picks in the sort select
QueryInputs == {<<>>, <<32, 80>>}                    \* "", " P"
SortKeyInputs == {"updatedAt", "createdAt"}
ParsedFile == [f \in FileInputs |-> JSONparse(f, Docs)]

\* ---------------------------------------------------------------- state
VARIABLES
  pc,          \* "boot" before the first render, "ready", "crashed" once a render threw
  items,       \* useState items
  persisted,   \* localStorage entry under STORAGE_KEY
  room,        \* characters the store accepts under the key
  saved,       \* outcome of the last saveData effect: "ok", "rejected", "none" (did not run)
  address,     \* data parameter of window.location
  selectedId,  \* useState selectedId
  modalOpen,   \* useState modalOpen
  editingId,   \* useState editingId
  title, content, caution, link, tagsText,   \* form fields
  now,         \* Date.now()
  reads,       \* FileReader reads in flight, in the order they were started;
               \* TRUE marks a read that a read started after it has overtaken
  clipboard,   \* last share URL written to the clipboard
  query,       \* useState query
  sortKey,     \* useState sortKey
  event        \* the last handler that ran: its outcome, the message it
               \* showed and the text it was given

vars ==
  <<pc, items, persisted, room, saved, address, selectedId, modalOpen, editingId,
    title, content, caution, link, tagsText, now, reads, clipboard, query, sortKey,
    event>>

form == <<modalOpen, editingId, title, content, caution, link, tagsText>>
env == <<room, address, now, reads, clipboard>>
view == <<query, sortKey>>

Ev(op, alert, arg) == [op |-> op, alert |-> alert, arg |-> arg]

\* after a handler that shows nothing and decides nothing
Idle == Ev("idle", "none", <<>>)

Init ==
  /\ pc = "boot"
  /\ items = <<>>
  /\ persisted \in EntryInputs
  /\ room \in RoomInputs
  /\ saved = "none"
  /\ address \in AddressInputs
  /\ selectedId = Null
  /\ modalOpen = FALSE
  /\ editingId = Null
  /\ title = <<>> /\ content = <<>> /\ caution = <<>> /\ link = <<>> /\ tagsText = <<>>
  /\ now = 1
  /\ reads = <<>>
  /\ clipboard = NoParam
  /\ query = <<>>
  /\ sortKey = "updatedAt"
  /\ event = Idle

\* setItems(list), the render that follows and the effect
\* useEffect(() => saveData(items), [items]); entry is the store entry the
\* effect finds. A render that throws unmounts the application before the
\* effect runs.
Commit(list, entry) ==
  /\ items' = list
  /\ IF RenderThrows(list) \/ FilterThrows(list, query)
     THEN pc' = "crashed" /\ persisted' = entry /\ saved' = "none"
     ELSE /\ pc' = "ready"
          /\ persisted' = saveData(entry, list, room)
          /\ saved' = IF StoreAccepts(JSONstringify(ArrDoc(list)), room)
                      THEN "ok" ELSE "rejected"

\* ------------------------------------------------------------- start-up
\* The first render (useState(() => loadData())) and the two mount
\* effects: saveData(items), then the share-link effect, whose confirm()
\* blocks; setItems(incoming) renders again and runs saveData again.
Mount(yes) ==
  /\ pc = "boot"
  /\ LET loaded == loadData(persisted, Docs)
         q == getQueryParam(address)
         dec == DecodedLink[address]
     IN IF q.null \/ q.val = <<>>
        THEN /\ Commit(loaded, persisted)
             /\ address' = address
             /\ event' = Ev("mount", "none", <<>>)
        ELSE /\ address' = setQueryParam(address)
             /\ IF dec.ok /\ dec.doc.isArr /\ yes
                THEN /\ Commit(dec.doc.list, saveData(persisted, loaded, room))
                     /\ event' = Ev("mountLinkLoaded", "none", q.val)
                ELSE /\ Commit(loaded, persisted)
                     /\ event' = Ev(IF ~dec.ok THEN "mountLinkFailed"
                                    ELSE IF ~dec.doc.isArr THEN "mountLinkNotList"
                                    ELSE "mountLinkDeclined", "none", q.val)
  /\ UNCHANGED <<room, selectedId, form, now, reads, clipboard>>
  /\ UNCHANGED view

\* ----------------------------------------------------------------- form
resetForm ==
  /\ editingId' = Null
  /\ title' = <<>> /\ content' = <<>> /\ caution' = <<>> /\ link' = <<>>
  /\ tagsText' = <<>>

\* The modal's overlay covers the page: the handlers behind it are offered
\* while the modal is closed.
openAdd ==
  /\ pc = "ready" /\ ~modalOpen
  /\ resetForm
  /\ modalOpen' = TRUE
  /\ event' = Idle
  /\ UNCHANGED <<pc, items, persisted, saved, selectedId, env>>
  /\ UNCHANGED view

\* item.title || "" and its like
FormText(v) == IF Truthy(v) THEN ToStr(v) ELSE <<>>

\* (item.tags || []).join(", ")
FormTags(v) ==
  IF v.t = "arr" THEN Join(Tup([i \in 1..Len(v.a) |-> ToStr(v.a[i])]), <<44, 32>>)
  ELSE <<>>

\* openEdit(selected)
openEdit ==
  /\ pc = "ready" /\ ~modalOpen
  /\ FindIndex(items, selectedId) # 0
  /\ LET item == items[FindIndex(items, selectedId)]
     IN /\ editingId' = item.id
        /\ title' = FormText(item.title)
        /\ content' = FormText(item.content)
        /\ caution' = FormText(item.caution)
        /\ link' = FormText(item.link)
        /\ tagsText' = FormTags(item.tags)
  /\ modalOpen' = TRUE
  /\ event' = Idle
  /\ UNCHANGED <<pc, items, persisted, saved, selectedId, env>>
  /\ UNCHANGED view

setTitle(v) ==
  /\ pc = "ready" /\ modalOpen
  /\ title' = v
  /\ event' = Idle
  /\ UNCHANGED <<pc, items, persisted, saved, selectedId, modalOpen, editingId,
                 content, caution, link, tagsText, env>>
  /\ UNCHANGED view

setContent(v) ==
  /\ pc = "ready" /\ modalOpen
  /\ content' = v
  /\ event' = Idle
  /\ UNCHANGED <<pc, items, persisted, saved, selectedId, modalOpen, editingId,
                 title, caution, link, tagsText, env>>
  /\ UNCHANGED view

setCaution(v) ==
  /\ pc = "ready" /\ modalOpen
  /\ caution' = v
  /\ event' = Idle
  /\ UNCHANGED <<pc, items, persisted, saved, selectedId, modalOpen, editingId,
                 title, content, link, tagsText, env>>
  /\ UNCHANGED view

setLink(v) ==
  /\ pc = "ready" /\ modalOpen
  /\ link' = v
  /\ event' = Idle
  /\ UNCHANGED <<pc, items, persisted, saved, selectedId, modalOpen, editingId,
                 title, content, caution, tagsText, env>>
  /\ UNCHANGED view

setTagsText(v) ==
  /\ pc = "ready" /\ modalOpen
  /\ tagsText' = v
  /\ event' = Idle
  /\ UNCHANGED <<pc, items, persisted, saved, selectedId, modalOpen, editingId,
                 title, content, caution, link, env>>
  /\ UNCHANGED view

\* the modal's close buttons: setModalOpen(false)
closeModal ==
  /\ pc = "ready" /\ modalOpen
  /\ modalOpen' = FALSE
  /\ event' = Idle
  /\ UNCHANGED <<pc, items, persisted, saved, selectedId, editingId,
                 title, content, caution, link, tagsText, env>>
  /\ UNCHANGED view

\* the list's buttons: setSelectedId(it.id)
selectItem(i) ==
  /\ pc = "ready" /\ ~modalOpen
  /\ i \in 1..Len(items)
  /\ selectedId' = items[i].id
  /\ event' = Idle
  /\ UNCHANGED <<pc, items, persisted, saved, form, env>>
  /\ UNCHANGED view

\* ----------------------------------------------------------- handleSave
\* { ...it, title: t, content, caution, link, tags, updatedAt: now }
Edited(it, t, tags, time) ==
  [it EXCEPT !.title = Str(t), !.content = Str(content), !.caution = Str(caution),
             !.link = Str(link), !.tags = Arr(MapStr(tags)), !.updatedAt = Num(time)]

\* prev.map((it) => it.id === editingId ? {...} : it)
UpdateItems(prev, id, t, tags, time) ==
  Tup([i \in 1..Len(prev) |->
         IF prev[i].id = id THEN Edited(prev[i], t, tags, time) ELSE prev[i]])

NewItem(id, t, tags, time) ==
  Obj(Str(id), Str(t), Str(content), Str(caution), Str(link), Arr(MapStr(tags)),
      Num(time), Num(time))

\* [item, ...prev]
CreateItems(prev, item) == <<item>> \o prev

handleSave(rnd) ==
  /\ pc = "ready" /\ modalOpen
  /\ LET t == Trim(title)
         tags == ParseTags(tagsText)
         id == uid(now, rnd)
     IN IF t = <<>>
        THEN /\ event' = Ev("saveRefused", "titleRequired", <<>>)
             /\ UNCHANGED <<pc, items, persisted, saved, selectedId, modalOpen>>
        ELSE IF Truthy(editingId)
        THEN /\ Commit(UpdateItems(items, editingId, t, tags, now), persisted)
             /\ selectedId' = editingId
             /\ modalOpen' = FALSE
             /\ event' = Ev(IF FindIndex(items, editingId) = 0 THEN "updateMissing"
                            ELSE "update", "none", <<>>)
        ELSE /\ Len(items) < MaxItems
             /\ Commit(CreateItems(items, NewItem(id, t, tags, now)), persisted)
             /\ selectedId' = Str(id)
             /\ modalOpen' = FALSE
             /\ event' = Ev("create", "none", <<>>)
  /\ UNCHANGED <<editingId, title, content, caution, link, tagsText, env>>
  /\ UNCHANGED view

\* --------------------------------------------------------- handleDelete
\* prev.filter((it) => it.id !== item.id)
DeleteItems(prev, id) == SelectSeq(prev, LAMBDA it : it.id # id)

\* a handleDelete that filters the list before it asks (faulty variant)
handleDeleteUnasked(yes) ==
  /\ pc = "ready" /\ ~modalOpen
  /\ FindIndex(items, selectedId) # 0
  /\ LET item == items[FindIndex(items, selectedId)]
     IN /\ Commit(DeleteItems(items, item.id), persisted)
        /\ selectedId' = IF selectedId = item.id THEN Null ELSE selectedId
        /\ event' = Ev(IF yes THEN "delete" ELSE "deleteDeclined", "none", <<>>)
  /\ UNCHANGED <<form, env>>
  /\ UNCHANGED view

\* handleDelete(selected)
handleDelete(yes) ==
  /\ pc = "ready" /\ ~modalOpen
  /\ FindIndex(items, selectedId) # 0
  /\ LET item == items[FindIndex(items, selectedId)]
     IN IF ~yes
        THEN /\ event' = Ev("deleteDeclined", "none", <<>>)
             /\ UNCHANGED <<pc, items, persisted, saved, selectedId>>
        ELSE /\ Commit(DeleteItems(items, item.id), persisted)
             /\ selectedId' = IF selectedId = item.id THEN Null ELSE selectedId
             /\ event' = Ev("delete", "none", <<>>)
  /\ UNCHANGED <<form, env>>
  /\ UNCHANGED view

\* ---------------------------------------------------------------- import
\* importJSON(file): reader.readAsText(file) starts a read
importJSON ==
  /\ pc = "ready" /\ ~modalOpen
  /\ Len(reads) < MaxReads
  /\ reads' = Append(reads, FALSE)
  /\ event' = Idle
  /\ UNCHANGED <<pc, items, persisted, saved, selectedId, form, room, address, now,
                 clipboard>>
  /\ UNCHANGED view

\* The reads left once the read at position i has completed; it has
\* overtaken the reads started before it
AfterRead(rs, i) ==
  Tup([j \in 1..(Len(rs) - 1) |-> IF j < i THEN TRUE ELSE rs[j + 1]])

\* a reader.onload that drops the result of a read that a later read has
\* overtaken (faulty variant)
importDoneUnlessOvertaken(i, text, rnd) ==
  /\ pc = "ready"
  /\ i \in 1..Len(reads)
  /\ LET parsed == ParsedFile[text]
     IN IF parsed.ok /\ parsed.doc.isArr /\ ~reads[i]
        THEN /\ Commit(ImportSafe(parsed.doc.list, now, rnd), persisted)
             /\ event' = Ev("importDone", "importDone", text)
        ELSE /\ event' = Ev(IF parsed.ok /\ parsed.doc.isArr THEN "importDoneLate"
                            ELSE "importFailed",
                            IF parsed.ok /\ parsed.doc.isArr THEN "importDone"
                            ELSE "importFailed", text)
             /\ UNCHANGED <<pc, items, persisted, saved>>
  /\ reads' = AfterRead(reads, i)
  /\ UNCHANGED <<selectedId, form, room, address, now, clipboard>>
  /\ UNCHANGED view

\* reader.onload of the read at position i, reader.result = text: reads
\* complete in any order, and deliver what the file holds
importDone(i, text, rnd) ==
  /\ pc = "ready"
  /\ i \in 1..Len(reads)
  /\ LET parsed == ParsedFile[text]
     IN IF parsed.ok /\ parsed.doc.isArr
        THEN /\ Commit(ImportSafe(parsed.doc.list, now, rnd), persisted)
             /\ event' = Ev(IF reads[i] THEN "importDoneLate" ELSE "importDone",
                            "importDone", text)
        ELSE /\ event' = Ev("importFailed", "importFailed", text)
             /\ UNCHANGED <<pc, items, persisted, saved>>
  /\ reads' = AfterRead(reads, i)
  /\ UNCHANGED <<selectedId, form, room, address, now, clipboard>>
  /\ UNCHANGED view

\* ------------------------------------------------------- search and sort
\* the search box: setQuery(e.target.value)
setQuery(v) ==
  /\ pc = "ready" /\ ~modalOpen
  /\ query' = v
  /\ pc' = IF FilterThrows(items, v) THEN "crashed" ELSE pc
  /\ event' = Idle
  /\ UNCHANGED <<items, persisted, saved, selectedId, form, env, sortKey>>

\* the sort select: setSortKey(e.target.value), for the two time keys
setSortKey(k) ==
  /\ pc = "ready" /\ ~modalOpen
  /\ sortKey' = k
  /\ event' = Idle
  /\ UNCHANGED <<pc, items, persisted, saved, selectedId, form, env, query>>

\* ---------------------------------------------------------------- export
\* exportJSON: the file offered for download holds
\* JSON.stringify(items, null, 2)
exportJSON ==
  /\ pc = "ready" /\ ~modalOpen
  /\ event' = Ev("export", "none", JSONstringifyIndented(ArrDoc(items)))
  /\ UNCHANGED <<pc, items, persisted, saved, selectedId, form, env>>
  /\ UNCHANGED view

\* ------------------------------------------------------------ share link
\* "create share link": encodeData(items) never throws on a list
createShareLink ==
  /\ pc = "ready" /\ ~modalOpen
  /\ clipboard' = ShareUrl(encodeData(ArrDoc(items)))
  /\ event' = Ev("share", "shareCopied", <<>>)
  /\ UNCHANGED <<pc, items, persisted, saved, selectedId, form, room, address, now, reads>>
  /\ UNCHANGED view

\* "load from link": p is what the prompt returns
loadFromLink(p, yes) ==
  /\ pc = "ready" /\ ~modalOpen
  /\ LET d == getQueryParam(p.addr)
         incoming == DecodedLink[p.addr]
     IN IF p.kind = "none"
        THEN /\ event' = Ev("linkNone", "none", <<>>)
             /\ UNCHANGED <<pc, items, persisted, saved>>
        ELSE IF p.kind = "text"
        THEN /\ event' = Ev("linkFailed", "linkError", <<>>)
             /\ UNCHANGED <<pc, items, persisted, saved>>
        ELSE IF d.null \/ d.val = <<>>
        THEN /\ event' = Ev("linkFailed", "invalidLink", <<>>)
             /\ UNCHANGED <<pc, items, persisted, saved>>
        ELSE IF ~incoming.ok
        THEN /\ event' = Ev("linkFailed", "linkError", d.val)
             /\ UNCHANGED <<pc, items, persisted, saved>>
        ELSE IF ~incoming.doc.isArr
        THEN /\ event' = Ev("linkFailed", "badFormat", d.val)
             /\ UNCHANGED <<pc, items, persisted, saved>>
        ELSE IF ~yes
        THEN /\ event' = Ev("linkDeclined", "none", d.val)
             /\ UNCHANGED <<pc, items, persisted, saved>>
        ELSE /\ Commit(incoming.doc.list, persisted)
             /\ event' = Ev("linkLoaded", "none", d.val)
  /\ UNCHANGED <<selectedId, form, env>>
  /\ UNCHANGED view

\* ----------------------------------------------------------------- clock
Tick ==
  /\ pc = "ready"
  /\ now < MaxTime
  /\ now' = now + 1
  /\ event' = Idle
  /\ UNCHANGED <<pc, items, persisted, saved, selectedId, form, room, address, reads,
                 clipboard>>
  /\ UNCHANGED view

\* -------------------------------------------------------- specifications
\* Inputs of the specification of the list and its persistence
ListRandomInputs == {<<98>>}
ListFileInputs ==
  {JSONstringify(DocGood), JSONstringify(DocTwins), JSONstringify(NonArrDoc), TxtGarbage}
ListPromptInputs ==
  {p \in PromptInputs :
     p.kind = "url" =>
       p.addr \in {Param(<<>>), Param(TokGarbage), ShareUrl(encodeData(NonArrDoc)),
                   ShareUrl(encodeData(DocGood))}}

\* The list and its persistence: every handler that changes the list, with
\* the clock standing still
Next ==
  \/ \E yes \in BOOLEAN : Mount(yes)
  \/ openAdd
  \/ openEdit
  \/ \E v \in TitleInputs : setTitle(v)
  \/ \E i \in 1..MaxItems : selectItem(i)
  \/ \E r \in ListRandomInputs : handleSave(r)
  \/ \E yes \in BOOLEAN : handleDelete(yes)
  \/ importJSON
  \/ \E i \in 1..MaxReads, f \in ListFileInputs, r \in ListRandomInputs :
       importDone(i, f, r)
  \/ \E p \in ListPromptInputs, yes \in BOOLEAN : loadFromLink(p, yes)

Spec == Init /\ [][Next]_vars

\* Ingestion: every file and every link, with the clock running
NextIngest ==
  \/ \E yes \in BOOLEAN : Mount(yes)
  \/ \E i \in 1..MaxItems : selectItem(i)
  \/ \E yes \in BOOLEAN : handleDelete(yes)
  \/ importJSON
  \/ \E i \in 1..MaxReads, f \in FileInputs \ {JSONstringify(DocGood)},
          r \in ListRandomInputs :
       importDone(i, f, r)
  \/ \E p \in PromptInputs, yes \in BOOLEAN : loadFromLink(p, yes)
  \/ Tick

SpecIngest == Init /\ [][NextIngest]_vars

\* The form: the application opened without a link on a store with room,
\* every field typed, the clock running
InitForm == Init /\ room = 5000 /\ address = NoParam

NextForm ==
  \/ \E yes \in BOOLEAN : Mount(yes)
  \/ openAdd
  \/ openEdit
  \/ \E v \in TitleInputs : setTitle(v)
  \/ \E v \in CautionInputs : setCaution(v)
  \/ \E v \in TagsInputs : setTagsText(v)
  \/ closeModal
  \/ \E i \in 1..MaxItems : selectItem(i)
  \/ \E r \in RandomInputs : handleSave(r)
  \/ Tick

SpecForm == InitForm /\ [][NextForm]_vars

\* Sharing: items with text outside ASCII, written to a share link
NextShare ==
  \/ \E yes \in BOOLEAN : Mount(yes)
  \/ openAdd
  \/ \E v \in TitleInputs \cup UnicodeTitleInputs : setTitle(v)
  \/ \E v \in ContentInputs : setContent(v)
  \/ \E v \in LinkInputs : setLink(v)
  \/ \E r \in ListRandomInputs : handleSave(r)
  \/ createShareLink

SpecShare == InitForm /\ [][NextShare]_vars

\* Export: lists made by create, update and delete on an empty store, with
\* text that JSON escapes, the clock running
InitExport == InitForm /\ persisted = NoEntry

ExportTitleInputs == {<<32, 34, 32, 92>>}             \* ' " \'

NextExport ==
  \/ \E yes \in BOOLEAN : Mount(yes)
  \/ openAdd
  \/ openEdit
  \/ \E v \in ExportTitleInputs : setTitle(v)
  \/ \E v \in TagsInputs : setTagsText(v)
  \/ \E i \in 1..MaxItems : selectItem(i)
  \/ \E r \in ListRandomInputs : handleSave(r)
  \/ \E yes \in BOOLEAN : handleDelete(yes)
  \/ exportJSON
  \/ Tick

SpecExport == InitExport /\ [][NextExport]_vars

\* The view: lists made in the form and loaded from links, searched and
\* sorted, the clock running
SortPromptInputs ==
  {[kind |-> "url", addr |-> ShareUrl(encodeData(d))] : d \in {DocGood, DocUndated}}

NextView ==
  \/ \E yes \in BOOLEAN : Mount(yes)
  \/ openAdd
  \/ openEdit
  \/ \E v \in ExportTitleInputs : setTitle(v)
  \/ \E i \in 1..MaxItems : selectItem(i)
  \/ \E r \in ListRandomInputs : handleSave(r)
  \/ \E p \in SortPromptInputs, yes \in BOOLEAN : loadFromLink(p, yes)
  \/ \E v \in QueryInputs : setQuery(v)
  \/ \E k \in SortKeyInputs : setSortKey(k)
  \/ Tick

SpecView == InitExport /\ [][NextView]_vars

\* ---------------------------------------------------------- properties
Stored(list) == Entry(JSONstringify(ArrDoc(list)))

\* C1: once the save effect has run and the store has accepted the write,
\* the entry under the key is the serialization of the whole current list.
PersistedInSync == saved = "ok" => persisted = Stored(items)

\* a delete that left one of two items, written through to the store
PersistedInSyncWitness ==
  event.op = "delete" /\ saved = "ok" /\ Len(items) = 1 /\ persisted = Stored(items)

\* C2: no two items of the list have the same id.
UniqueIds ==
  \A i, j \in 1..Len(items) : i # j => items[i].id # items[j].id

\* C3: every item of the list has updatedAt >= createdAt.
TimeOrdered(it) ==
  /\ it.createdAt.t = "num" /\ it.updatedAt.t = "num"
  /\ it.updatedAt.n >= it.createdAt.n

UpdatedNotBeforeCreated == \A i \in 1..Len(items) : TimeOrdered(items[i])

\* an item as the data model declares it
WellFormed(it) ==
  /\ it.k = "obj"
  /\ it.id.t = "str" /\ it.id.s # <<>>
  /\ it.title.t = "str" /\ it.title.s # <<>>
  /\ it.content.t = "str" /\ it.caution.t = "str" /\ it.link.t = "str"
  /\ it.tags.t = "arr" /\ \A j \in 1..Len(it.tags.a) : it.tags.a[j].t = "str"
  /\ it.createdAt.t = "num" /\ it.updatedAt.t = "num"

IngestOps == {"importDone", "importDoneLate", "linkLoaded", "mountLinkLoaded"}

\* C4: after a file import or the ingestion of a share link (on load or
\* pasted) the application still runs and every item of the list is well
\* formed.
IngestSanitizes ==
  event.op \in IngestOps =>
    pc = "ready" /\ \A i \in 1..Len(items) : WellFormed(items[i])

\* C5: saving the edit form when no item has the edited id shows a
\* not-found error and leaves the list and the selection as they were.
UpdateMissingFails ==
  [][event'.op = "updateMissing" =>
       event'.alert = "notFound" /\ items' = items /\ selectedId' = selectedId]_vars

\* C6: the address "create share link" writes carries a token of URL-safe
\* characters, and the token read back from that address decodes to the
\* list it was made from.
ShareRoundTrip ==
  event.op = "share" =>
    /\ getQueryParam(clipboard).val = clipboard.raw
    /\ LET back == decodeData(getQueryParam(clipboard).val, {ArrDoc(items)})
       IN back.ok /\ back.doc = ArrDoc(items)

\* the list start-up leaves is the decoded one only after a successful
\* decode to an array that the user confirmed, else the stored one
ReplacedOnlyIfConfirmed ==
  /\ event'.op = "mountLinkLoaded" =>
       /\ DecodedLink[address].ok /\ DecodedLink[address].doc.isArr
       /\ items' = DecodedLink[address].doc.list
  /\ event'.op # "mountLinkLoaded" => items' = loadData(persisted, Docs)

\* C7 as written: start-up strips the data parameter from the address
\* whenever the address carries it, and replaces the list only after a
\* successful decode and a confirmation.
LoadStripsParam ==
  [][pc = "boot" /\ pc' # "boot" =>
       (address.has => ~address'.has) /\ ReplacedOnlyIfConfirmed]_vars

\* C7: start-up strips the data parameter from the address whenever the
\* address carries it with a value that is not empty, in every branch, and
\* replaces the list only after a successful decode and a confirmation.
LoadStripsValue ==
  [][pc = "boot" /\ pc' # "boot" =>
       (address.has /\ address.raw # <<>> => ~address'.has)
       /\ ReplacedOnlyIfConfirmed]_vars

\* started on a link that does not decode: the list is the stored one and
\* the address is clean
LoadStripsValueWitness ==
  event.op = "mountLinkFailed" /\ ~address.has /\ items # <<>>

\* C8: when the read of a file that holds an array completes, the list is
\* the sanitized content of that file, and so is the stored copy once
\* written, also when reads started later have completed before it.
LastImportWins ==
  event.op \in {"importDone", "importDoneLate"} =>
    \E r \in RandomInputs :
      LET safe == ImportSafe(ParsedFile[event.arg].doc.list, now, r)
      IN items = safe /\ (saved = "ok" => persisted = Stored(safe))

\* two imports, the one started first finished last with the one-item file
\* over the two items of the other
LastImportWinsWitness ==
  /\ event.op = "importDoneLate" /\ reads = <<>>
  /\ event.arg = JSONstringify(DocGood)
  /\ Len(items) = 1 /\ persisted = Stored(items)

FailureOps ==
  {"saveRefused", "linkNone", "linkFailed", "linkDeclined", "importFailed",
   "deleteDeclined"}

MountFailureOps == {"mountLinkFailed", "mountLinkNotList", "mountLinkDeclined"}

\* C9: a refused submission, a link that does not decode or decodes to no
\* array, a file that is no JSON array and a declined confirmation leave
\* the list and the stored copy as they were; at start-up, as a start
\* without a link leaves them.
FailureKeepsState ==
  [][/\ event'.op \in FailureOps => items' = items /\ persisted' = persisted
     /\ event'.op \in MountFailureOps =>
          /\ items' = loadData(persisted, Docs)
          /\ persisted' = saveData(persisted, loadData(persisted, Docs), room)]_vars

\* a declined delete on a list of two
FailureKeepsStateWitness ==
  event.op = "deleteDeclined" /\ Len(items) = 2 /\ saved = "ok"

\* C10: a create puts the new item before the previous list, stamps both
\* times with the current time, gives it an id no item of the previous list
\* has, and the tags of the comma-split, trimmed, non-empty segments.
CreatePrependsFresh ==
  [][event'.op = "create" =>
       /\ Len(items') = Len(items) + 1
       /\ Tail(items') = items
       /\ Head(items').createdAt = Num(now) /\ Head(items').updatedAt = Num(now)
       /\ Head(items').tags = Arr(MapStr(ParseTags(tagsText)))
       /\ \A i \in 1..Len(items) : items[i].id # Head(items').id]_vars

\* C11: the file exportJSON writes, imported at any later time, yields the
\* exported list: the same items, field values and order.
ExportImportRoundTrip ==
  event.op = "export" =>
    LET parsed == JSONparse(event.arg, {ArrDoc(items)})
    IN /\ parsed.ok /\ parsed.doc.isArr
       /\ \A time \in now..MaxTime, r \in RandomInputs :
            ImportSafe(parsed.doc.list, time, r) = items

\* create A, create B, edit B later with escaped text and tags, delete A,
\* export
ExportImportRoundTripWitness ==
  /\ event.op = "export" /\ Len(items) = 1 /\ selectedId = Null
  /\ items[1].title = Str(<<34, 32, 92>>)
  /\ items[1].tags = Arr(<<Str(<<97>>), Str(<<98>>)>>)
  /\ items[1].updatedAt.n > items[1].createdAt.n

\* the number an item counts with under the key: its field, 0 when the
\* field is missing
HasTime(it, key) == SortField(it, key).t \in {"num", "absent"}
TimeOf(it, key) == IF SortField(it, key).t = "num" THEN SortField(it, key).n ELSE 0

\* C12: under either time key the displayed view is an arrangement of the
\* filtered list in which no item stands before an item with a greater
\* value of the field, a missing field counting as 0 (items whose field is
\* present and no number are left out of the comparison).
ViewOrdered ==
  pc = "ready" =>
    \A out \in SortOutcomes(Filtered(items, query), sortKey) :
      /\ out \in Arrangements(Filtered(items, query))
      /\ \A i, j \in 1..Len(out) :
           (i < j /\ HasTime(out[i], sortKey) /\ HasTime(out[j], sortKey))
             => TimeOf(out[i], sortKey) >= TimeOf(out[j], sortKey)

====
